---- MODULE Spec2Model ----
(***************************************************************************)
(* importmagic.el server (importmagicserver.py): an EPC server that keeps  *)
(* one process-wide importmagic.SymbolIndex in the global `index` and      *)
(* serves four registered functions: build_index, get_unresolved_symbols,  *)
(* get_candidates_for_symbol and get_import_statement.                     *)
(*                                                                         *)
(* A Python string is a sequence of one-character strings.  The arguments  *)
(* of a call are a tuple of such strings (the pieces Emacs Lisp sent),     *)
(* which _stringify joins.                                                 *)
(***************************************************************************)
EXTENDS Integers, Sequences, FiniteSets, TLC

----------------------------------------------------------------------------
(* Bounds of the model. *)

MaxThreads == 2      \* handler slots the server process could hold at once
MaxBuilds == 2       \* SymbolIndex objects created in one run
MaxPathArgs == 2     \* arguments of one build_index call
MaxNameLen == 1      \* characters of a module, variable or symbol name
MaxEntries == 2      \* entries index.symbol_scores yields in the formatting runs

Threads == 1..MaxThreads

----------------------------------------------------------------------------
(* Python string primitives. *)

Min(a, b) == IF a < b THEN a ELSE b
Max(a, b) == IF a > b THEN a ELSE b

SeqsUpTo(S, n) == UNION {[1..k -> S] : k \in 0..n}

\* s[a:b]
PySlice(s, a, b) ==
    LET n  == Len(s)
        lo == IF a < 0 THEN Max(n + a, 0) ELSE Min(a, n)
        hi == IF b < 0 THEN Max(n + b, 0) ELSE Min(b, n)
    IN  IF lo >= hi THEN <<>> ELSE SubSeq(s, lo + 1, hi)

\* s[a:]
PySliceFrom(s, a) == PySlice(s, a, Len(s))

\* s.startswith(p)
StartsWith(s, p) == Len(s) >= Len(p) /\ SubSeq(s, 1, Len(p)) = p

\* s.find(sub): the lowest 0-based position of sub in s, or -1
MatchesAt(s, sub, i) ==
    i + Len(sub) <= Len(s) /\ SubSeq(s, i + 1, i + Len(sub)) = sub

Find(s, sub) ==
    LET hits == {i \in 0..Len(s) : MatchesAt(s, sub, i)}
    IN  IF hits = {} THEN -1 ELSE CHOOSE i \in hits : \A j \in hits : i <= j

RECURSIVE Join(_)
Join(parts) == IF parts = <<>> THEN <<>> ELSE Head(parts) \o Join(Tail(parts))

\* _stringify with a slip: only the first piece is kept.
Stringify_first(input_param) ==
    IF input_param = <<>> THEN <<>> ELSE Head(input_param)

\* ''.join(input_param)
Stringify(input_param) == Join(input_param)

ImportKw == <<"i", "m", "p", "o", "r", "t", " ">>            \* 'import '
FromKw == <<"f", "r", "o", "m", " ">>                        \* 'from '
ImportSep == <<" ", "i", "m", "p", "o", "r", "t", " ">>      \* ' import '
FailedMsg == "Failed to build index"

----------------------------------------------------------------------------
(* The values the environment supplies. *)

NameChars == {"m", "o"}
Names == SeqsUpTo(NameChars, MaxNameLen) \ {<<>>}
Scores == {1, 2}

\* What index.symbol_scores yields: (score, module, variable), variable None
\* when the symbol is the module itself.
Entries ==
    {[score |-> sc, module |-> m, hasvar |-> FALSE, variable |-> <<>>] :
        sc \in Scores, m \in Names}
    \cup
    {[score |-> sc, module |-> m, hasvar |-> TRUE, variable |-> v] :
        sc \in Scores, m \in Names, v \in Names}

\* The index yields its entries best score first.
BestFirst(es) == \A i \in 1..(Len(es) - 1) : es[i].score >= es[i + 1].score

EntryListsUpTo(n) == {es \in SeqsUpTo(Entries, n) : BestFirst(es)}

SysPath == << <<"/", "l">> >>                      \* sys.path of the process
Roots == { <<"/", "a">>, <<"/", "b">> }
PathArgs == SeqsUpTo(Roots, MaxPathArgs) \cup { << <<"/">>, <<"a">> >> }

Sources == { <<"o">>, <<"(">> }
Symbols == Names \cup {<<>>}

NoIndex == [id |-> 0, scanned |-> <<>>, built |-> FALSE]       \* None
NoLoc == [fullpath |-> <<>>, created |-> 0, yielded |-> <<>>,
          calls |-> <<>>, saw |-> NoIndex]
NoRet == [kind |-> "none", list |-> <<>>]

Readers == {"get_unresolved_symbols", "get_candidates_for_symbol",
            "get_import_statement"}

VARIABLES index, nextId, alive, exitCode, stdout, op, pc, args, loc, ret

vars == <<index, nextId, alive, exitCode, stdout, op, pc, args, loc, ret>>

----------------------------------------------------------------------------
(* The requests a client can send. *)

\* 'import {}'.format(module) / 'from {} import {}'.format(module, variable)
FormatCandidate(e) ==
    IF ~e.hasvar
    THEN ImportKw \o e.module
    ELSE FromKw \o e.module \o ImportSep \o e.variable

Prefixes(s) == {SubSeq(s, 1, k) : k \in 0..Len(s)}

\* Suggestion strings a client may hand back: the rendered suggestions, the
\* same with an empty module, and every truncation of them.
RawEntries ==
    {[score |-> 1, module |-> m, hasvar |-> FALSE, variable |-> <<>>] :
        m \in Names \cup {<<>>}}
    \cup
    {[score |-> 1, module |-> m, hasvar |-> TRUE, variable |-> v] :
        m \in Names \cup {<<>>}, v \in Names}

Statements == UNION {Prefixes(FormatCandidate(e)) : e \in RawEntries}

FmtRequests ==
    {[op |-> "get_candidates_for_symbol", args |-> <<s>>] : s \in Symbols}
    \cup
    {[op |-> "get_import_statement", args |-> << <<src>>, <<st>> >>] :
        src \in Sources, st \in Statements}
    \cup
    {[op |-> "get_import_statement", args |-> << <<src>> >>] : src \in Sources}

Requests ==
    FmtRequests
    \cup
    {[op |-> "build_index", args |-> a] : a \in PathArgs}
    \cup
    {[op |-> "get_unresolved_symbols", args |-> <<src>>] : src \in Sources}

----------------------------------------------------------------------------
(* The server: server = EPCServer(...); server.serve_forever().  EPCServer  *)
(* is the single-threaded server class: a request is read only when the    *)
(* handler of the one before it has returned.                              *)

\* The server as a threading server would be: a handler starts while others
\* run.
ServerIdle_threading == \E t \in Threads : pc[t] = "idle"

ServerIdle == \A t \in Threads : pc[t] = "idle"

UnboundBuilds ==
    Cardinality({t \in Threads : op[t] = "build_index" /\ pc[t] = "start"})

Dispatch(t, requests) ==
    /\ alive
    /\ ServerIdle
    /\ pc[t] = "idle"
    /\ \A u \in Threads : u < t => pc[u] # "idle"
    /\ \E r \in requests :
          /\ r.op = "build_index" => nextId + UnboundBuilds <= MaxBuilds
          /\ op' = [op EXCEPT ![t] = r.op]
          /\ args' = [args EXCEPT ![t] = r.args]
    /\ pc' = [pc EXCEPT ![t] = "start"]
    /\ loc' = [loc EXCEPT ![t] = NoLoc]
    /\ ret' = [ret EXCEPT ![t] = NoRet]
    /\ UNCHANGED <<index, nextId, alive, exitCode, stdout>>

\* The handler has returned: EPC sends the reply and the frame is gone.
Return(t) ==
    /\ alive
    /\ pc[t] = "done"
    /\ op' = [op EXCEPT ![t] = "none"]
    /\ args' = [args EXCEPT ![t] = <<>>]
    /\ pc' = [pc EXCEPT ![t] = "idle"]
    /\ loc' = [loc EXCEPT ![t] = NoLoc]
    /\ ret' = [ret EXCEPT ![t] = NoRet]
    /\ UNCHANGED <<index, nextId, alive, exitCode, stdout>>

----------------------------------------------------------------------------
(* The handler build_index. *)

\* Line 39 without the join: every argument becomes an element of its own.
FullPath_separate(path) == SysPath \o path

\* fullpath = sys.path + [_stringify(path)]
FullPath(path) == SysPath \o <<Stringify(path)>>

\* Line 42 with a slip: the index object is created only when there is none.
NewSymbolIndex_reuse(cur, id) ==
    IF cur.id = 0
    THEN [id |-> id, scanned |-> <<>>, built |-> FALSE]
    ELSE [cur EXCEPT !.built = FALSE]

\* importmagic.SymbolIndex(): a new, empty index object
NewSymbolIndex(cur, id) == [id |-> id, scanned |-> <<>>, built |-> FALSE]

\* fullpath = ...; index = importmagic.SymbolIndex()
BuildIndexBind(t) ==
    /\ alive
    /\ op[t] = "build_index" /\ pc[t] = "start"
    /\ loc' = [loc EXCEPT ![t] = [@ EXCEPT !.fullpath = FullPath(args[t]),
                                           !.created = nextId]]
    /\ index' = NewSymbolIndex(index, nextId)
    /\ nextId' = nextId + 1
    /\ pc' = [pc EXCEPT ![t] = "building"]
    /\ UNCHANGED <<alive, exitCode, stdout, op, args, ret>>

\* index.build_index(paths=fullpath) returns: the object the global holds
\* now has scanned every path.
BuildIndexScan(t) ==
    /\ alive
    /\ op[t] = "build_index" /\ pc[t] = "building"
    /\ index' = [index EXCEPT !.scanned = @ \o loc[t].fullpath, !.built = TRUE]
    /\ pc' = [pc EXCEPT ![t] = "done"]
    /\ ret' = [ret EXCEPT ![t] = [kind |-> "nil", list |-> <<>>]]
    /\ UNCHANGED <<nextId, alive, exitCode, stdout, op, args, loc>>

\* Lines 44-46 with the failure returned to the caller instead.
BuildIndexFail_reports(t) ==
    /\ alive
    /\ op[t] = "build_index" /\ pc[t] = "building"
    /\ pc' = [pc EXCEPT ![t] = "done"]
    /\ ret' = [ret EXCEPT ![t] = [kind |-> "error", list |-> <<>>]]
    /\ UNCHANGED <<index, nextId, alive, exitCode, stdout, op, args, loc>>

\* index.build_index raises part way: except: print(...); sys.exit(-1),
\* which ends the process.
BuildIndexFail(t) ==
    /\ alive
    /\ op[t] = "build_index" /\ pc[t] = "building"
    /\ \E k \in 0..(Len(loc[t].fullpath) - 1) :
          index' = [index EXCEPT !.scanned = @ \o SubSeq(loc[t].fullpath, 1, k)]
    /\ stdout' = Append(stdout, FailedMsg)
    /\ exitCode' = -1
    /\ alive' = FALSE
    /\ pc' = [pc EXCEPT ![t] = "exited"]
    /\ UNCHANGED <<nextId, op, args, loc, ret>>

----------------------------------------------------------------------------
(* The handler get_unresolved_symbols. *)

\* Scope.from_source raises on source it cannot parse; otherwise the
\* unresolved names come back as a list.
GetUnresolvedSymbols(t) ==
    /\ alive
    /\ op[t] = "get_unresolved_symbols" /\ pc[t] = "start"
    /\ \/ \E unres \in SeqsUpTo(Names, 1) :
             ret' = [ret EXCEPT ![t] = [kind |-> "list", list |-> unres]]
       \/ ret' = [ret EXCEPT ![t] = [kind |-> "error", list |-> <<>>]]
    /\ pc' = [pc EXCEPT ![t] = "done"]
    /\ UNCHANGED <<index, nextId, alive, exitCode, stdout, op, args, loc>>

----------------------------------------------------------------------------
(* The handler get_candidates_for_symbol. *)

\* Line 74 with a slip: candidates.appendleft(fmt)
RECURSIVE Candidates_appendleft(_, _)
Candidates_appendleft(es, candidates) ==
    IF es = <<>>
    THEN candidates
    ELSE Candidates_appendleft(Tail(es), <<FormatCandidate(Head(es))>> \o candidates)

\* The loop of lines 67-76 over what index.symbol_scores yields.
RECURSIVE Candidates(_, _)
Candidates(es, candidates) ==
    IF es = <<>>
    THEN candidates
    ELSE Candidates(Tail(es), Append(candidates, FormatCandidate(Head(es))))

\* Line 68 with a guard: a missing index counts as an empty one.
SymbolScores_lenient(idx, lists) == IF idx.id = 0 THEN {<<>>} ELSE lists

\* index.symbol_scores(symbol): None has no such attribute, and the call
\* raises; an index yields some list of entries.
SymbolScores(idx, lists) == IF idx.id = 0 THEN {} ELSE lists

GetCandidates(t, lists) ==
    /\ alive
    /\ op[t] = "get_candidates_for_symbol" /\ pc[t] = "start"
    /\ IF SymbolScores(index, lists) = {}
       THEN /\ ret' = [ret EXCEPT ![t] = [kind |-> "error", list |-> <<>>]]
            /\ loc' = [loc EXCEPT ![t] = [@ EXCEPT !.saw = index]]
       ELSE \E es \in SymbolScores(index, lists) :
            /\ ret' = [ret EXCEPT ![t] =
                          [kind |-> "list", list |-> Candidates(es, <<>>)]]
            /\ loc' = [loc EXCEPT ![t] = [@ EXCEPT !.saw = index, !.yielded = es]]
    /\ pc' = [pc EXCEPT ![t] = "done"]
    /\ UNCHANGED <<index, nextId, alive, exitCode, stdout, op, args>>

----------------------------------------------------------------------------
(* The handler get_import_statement. *)

AddImport(module) ==
    [fn |-> "add_import", module |-> module, variable |-> <<>>]
AddImportFrom(module, variable) ==
    [fn |-> "add_import_from", module |-> module, variable |-> variable]

\* Line 90 with a slip: the prefix is cut one character short.
ImportCalls_short(import_statement) ==
    IF StartsWith(import_statement, ImportKw)
    THEN <<AddImport(PySliceFrom(import_statement, 6))>>
    ELSE LET separator == Find(import_statement, ImportSep)
         IN  IF separator >= 0
             THEN <<AddImportFrom(PySlice(import_statement, 5, separator),
                                  PySliceFrom(import_statement, separator + 8))>>
             ELSE <<>>

\* Lines 89-98: the calls made on the Imports object.
ImportCalls(import_statement) ==
    IF StartsWith(import_statement, ImportKw)
    THEN <<AddImport(PySliceFrom(import_statement, 7))>>
    ELSE LET separator == Find(import_statement, ImportSep)
         IN  IF separator >= 0
             THEN <<AddImportFrom(PySlice(import_statement, 5, separator),
                                  PySliceFrom(import_statement, separator + 8))>>
             ELSE <<>>

\* The handler with a slip: it drops the index it was given.
GetImportStatement_resets(t) ==
    /\ alive
    /\ op[t] = "get_import_statement" /\ pc[t] = "start"
    /\ index' = NoIndex
    /\ ret' = [ret EXCEPT ![t] = [kind |-> "edit", list |-> <<>>]]
    /\ pc' = [pc EXCEPT ![t] = "done"]
    /\ UNCHANGED <<nextId, alive, exitCode, stdout, op, args, loc>>

\* source_and_import[1] of a shorter tuple raises; Imports(index, source)
\* and get_update() may raise on source they cannot handle; otherwise
\* [start, end, new_statement] of get_update() is returned.
GetImportStatement(t) ==
    /\ alive
    /\ op[t] = "get_import_statement" /\ pc[t] = "start"
    /\ IF Len(args[t]) < 2
       THEN /\ ret' = [ret EXCEPT ![t] = [kind |-> "error", list |-> <<>>]]
            /\ loc' = loc
       ELSE LET import_statement == Stringify(args[t][2])
            IN  \/ /\ ret' = [ret EXCEPT ![t] = [kind |-> "edit", list |-> <<>>]]
                   /\ loc' = [loc EXCEPT ![t] =
                                 [@ EXCEPT !.saw = index,
                                           !.calls = ImportCalls(import_statement)]]
                \/ /\ ret' = [ret EXCEPT ![t] = [kind |-> "error", list |-> <<>>]]
                   /\ loc' = [loc EXCEPT ![t] = [@ EXCEPT !.saw = index]]
    /\ pc' = [pc EXCEPT ![t] = "done"]
    /\ UNCHANGED <<index, nextId, alive, exitCode, stdout, op, args>>

----------------------------------------------------------------------------
(* The server process from its start. *)

Init ==
    /\ index = NoIndex
    /\ nextId = 1
    /\ alive = TRUE
    /\ exitCode = 0
    /\ stdout = <<>>
    /\ op = [t \in Threads |-> "none"]
    /\ pc = [t \in Threads |-> "idle"]
    /\ args = [t \in Threads |-> <<>>]
    /\ loc = [t \in Threads |-> NoLoc]
    /\ ret = [t \in Threads |-> NoRet]

Next ==
    \E t \in Threads :
        \/ Dispatch(t, Requests)
        \/ BuildIndexBind(t)
        \/ BuildIndexScan(t)
        \/ BuildIndexFail(t)
        \/ GetUnresolvedSymbols(t)
        \/ GetCandidates(t, EntryListsUpTo(1))
        \/ GetImportStatement(t)
        \/ Return(t)

Spec == Init /\ [][Next]_vars

(* The formatting functions on their own: the server after one build, asked *)
(* for candidates and import statements only.                               *)

InitFmt ==
    /\ index = [id |-> 1, scanned |-> FullPath(<< <<"/", "a">> >>), built |-> TRUE]
    /\ nextId = 2
    /\ alive = TRUE
    /\ exitCode = 0
    /\ stdout = <<>>
    /\ op = [t \in Threads |-> "none"]
    /\ pc = [t \in Threads |-> "idle"]
    /\ args = [t \in Threads |-> <<>>]
    /\ loc = [t \in Threads |-> NoLoc]
    /\ ret = [t \in Threads |-> NoRet]

NextFmt ==
    \E t \in Threads :
        \/ Dispatch(t, FmtRequests)
        \/ GetCandidates(t, EntryListsUpTo(MaxEntries))
        \/ GetImportStatement(t)
        \/ Return(t)

SpecFmt == InitFmt /\ [][NextFmt]_vars

----------------------------------------------------------------------------
(* Properties. *)

IsBuild(t) == op[t] = "build_index"
IsCandidates(t) == op[t] = "get_candidates_for_symbol"
IsImport(t) == op[t] = "get_import_statement"
ReadsIndex(t) == IsCandidates(t) \/ IsImport(t)
Unfinished(idx) == idx.id # 0 /\ ~idx.built

\* C1, as stated: a handler that reads the index has seen None or an index
\* whose build had finished, and in no state is the global index bound to an
\* index object whose build has not finished.
C1_NeverUnfinishedIndex ==
    /\ \A t \in Threads :
          ReadsIndex(t) /\ pc[t] = "done" => ~Unfinished(loc[t].saw)
    /\ ~Unfinished(index)

\* C1, as amended: a handler that reads the index has seen None or an index
\* whose build had finished; the global index is bound to an unfinished index
\* object only while the build_index call that created it is between its
\* assignment and its return (or has ended the process), and no other
\* handler runs in that time.
C1_ReadersSeeFinishedIndex ==
    /\ \A t \in Threads :
          ReadsIndex(t) /\ pc[t] = "done" => ~Unfinished(loc[t].saw)
    /\ Unfinished(index) =>
          \E t \in Threads :
              /\ IsBuild(t) /\ pc[t] \in {"building", "exited"}
              /\ loc[t].created = index.id
              /\ \A u \in Threads \ {t} : pc[u] = "idle"

\* C1: a reader has been served after a rebuild and saw the second index.
C1_Witness ==
    \E t \in Threads :
        ReadsIndex(t) /\ pc[t] = "done" /\ loc[t].saw.built /\ loc[t].saw.id = 2

\* C2: when a build_index call has succeeded, the global index is the object
\* that call created, and it has scanned sys.path and the joined path of that
\* call and nothing else; between builds the index holds one build's paths.
C2_IndexReplaced ==
    /\ \A t \in Threads :
          IsBuild(t) /\ pc[t] = "done" =>
              /\ index.id = loc[t].created
              /\ index.id = nextId - 1
              /\ index.built
              /\ index.scanned = SysPath \o <<Join(args[t])>>
    /\ index.built => Len(index.scanned) = Len(SysPath) + 1

\* C2: a second build_index call has succeeded.
C2_Witness ==
    \E t \in Threads :
        IsBuild(t) /\ pc[t] = "done" /\ loc[t].created = 2 /\ Len(args[t]) = 1

\* A build_index call whose index build failed.
BuildFailed(t) ==
    IsBuild(t) /\ pc[t] \notin {"idle", "start", "building"} /\ ~index.built

\* C3, as stated: when building the index fails, the caller gets an error
\* outcome and the service stays available.
C3_FailureReported ==
    \A t \in Threads :
        BuildFailed(t) => alive /\ pc[t] = "done" /\ ret[t].kind = "error"

\* C3, as amended: when building the index fails, build_index prints
\* 'Failed to build index' and ends the server process with exit status -1;
\* the caller gets no reply, and the process serves nothing afterwards.
C3_FailureExits ==
    /\ \A t \in Threads :
          BuildFailed(t) =>
              /\ ~alive
              /\ exitCode = -1
              /\ stdout = <<FailedMsg>>
              /\ pc[t] = "exited"
              /\ ret[t].kind = "none"
    /\ ~alive => ~ENABLED Next

\* C3: an index build has failed.
C3_Witness == \E t \in Threads : BuildFailed(t) /\ Len(args[t]) = 1

\* The suggestion string neither starts with 'import ' nor contains
\* ' import ', or its module part is empty.
Malformed(s) ==
    \/ ~StartsWith(s, ImportKw) /\ Find(s, ImportSep) < 0
    \/ s = ImportKw
    \/ StartsWith(s, FromKw \o ImportSep)

\* C4: get_import_statement called with a malformed suggestion string
\* returns an error and no edit.
C4_MalformedRejected ==
    \A t \in Threads :
        (IsImport(t) /\ pc[t] = "done" /\ Len(args[t]) = 2
                     /\ Malformed(Join(args[t][2])))
            => ret[t].kind = "error"

C6_OneStringPerEntry ==
    \A t \in Threads :
        IsCandidates(t) /\ pc[t] = "done" /\ ret[t].kind = "list" =>
            /\ Len(ret[t].list) = Len(loc[t].yielded)
            /\ \A i \in 1..Len(loc[t].yielded) :
                  LET e == loc[t].yielded[i]
                  IN  ret[t].list[i] =
                        IF e.hasvar
                        THEN <<"f", "r", "o", "m", " ">> \o e.module
                             \o <<" ", "i", "m", "p", "o", "r", "t", " ">>
                             \o e.variable
                        ELSE <<"i", "m", "p", "o", "r", "t", " ">> \o e.module

\* C6: two different entries, one of each kind, have been rendered.
C6_Witness ==
    \E t \in Threads :
        /\ IsCandidates(t) /\ pc[t] = "done" /\ ret[t].kind = "list"
        /\ Len(loc[t].yielded) = 2
        /\ loc[t].yielded[1].hasvar /\ ~loc[t].yielded[2].hasvar
        /\ loc[t].yielded[1].score > loc[t].yielded[2].score

\* C7: at most one build_index call is in progress at a time; the index a
\* finished call leaves is the one that call created and built from its own
\* paths; and between requests the index is the one of the latest call.
C7_BuildsSerialized ==
    /\ Cardinality({t \in Threads : IsBuild(t) /\ pc[t] # "idle"}) <= 1
    /\ \A t \in Threads :
          IsBuild(t) /\ pc[t] = "done" =>
              index.id = loc[t].created /\ index.scanned = loc[t].fullpath
    /\ ServerIdle /\ nextId > 1 => index.built /\ index.id = nextId - 1

\* C7: two build_index calls have been served, one after the other.
C7_Witness == ServerIdle /\ nextId = 3 /\ index.id = 2 /\ index.built

PastBind(t) == IsBuild(t) /\ pc[t] \in {"building", "done", "exited"}

\* C8, as stated: each root passed to build_index is an element of its own
\* of the path list handed to the index build, in the order passed.
C8_RootsSeparate ==
    \A t \in Threads :
        PastBind(t) /\ (\A i \in 1..Len(args[t]) : args[t][i] \in Roots) =>
            LET fullpath == loc[t].fullpath
            IN  /\ Len(fullpath) >= Len(args[t])
                /\ SubSeq(fullpath, Len(fullpath) - Len(args[t]) + 1,
                          Len(fullpath)) = args[t]

\* C8, as amended: the path list handed to the index build is sys.path
\* followed by exactly one more element, the concatenation of all arguments
\* of the call in the order passed.
C8_RootsJoined ==
    \A t \in Threads :
        PastBind(t) =>
            LET fullpath == loc[t].fullpath
            IN  /\ Len(fullpath) = Len(SysPath) + 1
                /\ SubSeq(fullpath, 1, Len(SysPath)) = SysPath
                /\ fullpath[Len(fullpath)] = Join(args[t])

\* C8: build_index has been called with two different roots.
C8_Witness ==
    \E t \in Threads :
        /\ PastBind(t) /\ Len(args[t]) = 2
        /\ args[t][1] \in Roots /\ args[t][2] \in Roots
        /\ args[t][1] # args[t][2]

\* C9: a step that changes the global index is a step of a build_index
\* handler; the three other handlers leave it as it is, whether they return
\* a result or fail.
C9_OnlyBuildChangesIndex ==
    [][index' # index =>
          \E t \in Threads : IsBuild(t) /\ pc'[t] # pc[t]]_vars

\* C9: one of the three other handlers has failed while an index is held.
C9_Witness ==
    \E t \in Threads :
        op[t] \in Readers /\ pc[t] = "done" /\ ret[t].kind = "error" /\ index.built

\* C10: get_candidates_for_symbol served before any build_index call has
\* assigned the index fails, for every symbol, and returns no list.
C10_NoIndexNoCandidates ==
    \A t \in Threads :
        IsCandidates(t) /\ pc[t] = "done" /\ nextId = 1 =>
            ret[t].kind = "error" /\ ret[t].list = <<>>

\* C10: a symbol has been looked up before any build.
C10_Witness ==
    \E t \in Threads :
        /\ IsCandidates(t) /\ pc[t] = "done" /\ nextId = 1 /\ index = NoIndex
        /\ Join(args[t]) \in Names

====
